---- MODULE Spec2Model ----
(***************************************************************************)
(* Model of owl2json.py: the OWL/RDF to JSON converter of panres2web.      *)
(* Strings are sequences of one-character strings, so that prefix tests,   *)
(* splitting and trimming are computed as the Python code computes them.   *)
(***************************************************************************)
EXTENDS Naturals, Sequences, FiniteSets, TLC

VARIABLES
    \* __main__ and convert_owl_to_json
    pc, exit_status, download_ok, parse_ok, graph, todo,
    subject_props, subj_order,
    class_subjects, phenotype_subjects, mechanism_subjects, database_subjects,
    scan_i, build_i, data, gene_sequences, protein_sequences, json_file,
    \* parse_fasta, one line at a time
    fasta_file, line_i, current_id, current_seq, sequences, fpc,
    \* clean_uri
    uri_str, uri_once, uri_twice, upc

mainVars == <<pc, exit_status, download_ok, parse_ok, graph, todo,
              subject_props, subj_order,
              class_subjects, phenotype_subjects, mechanism_subjects,
              database_subjects, scan_i, build_i, data, gene_sequences,
              protein_sequences, json_file>>

fastaVars == <<fasta_file, line_i, current_id, current_seq, sequences, fpc>>

uriVars == <<uri_str, uri_once, uri_twice, upc>>

vars == <<mainVars, fastaVars, uriVars>>

---------------------------------------------------------------------------
\* Bounds of the model.

\* Largest number of triples in the input graph.
MaxTriples == 4

\* Largest number of lines in a FASTA file handed to the line-by-line loop.
MaxLines == 3

\* Longest local part appended to a namespace in the clean_uri inputs.
MaxFrag == 2

---------------------------------------------------------------------------
\* Strings as the Python string methods treat them.

Min(S) == CHOOSE x \in S : \A y \in S : x <= y

Max(S) == CHOOSE x \in S : \A y \in S : y <= x

\* The empty dict.
EmptyMap == [k \in {} |-> <<>>]

\* d[k] = v
Put(d, k, v) == [x \in DOMAIN d \cup {k} |-> IF x = k THEN v ELSE d[x]]

\* s.startswith(p)
StartsWith(s, p) == Len(s) >= Len(p) /\ SubSeq(s, 1, Len(p)) = p

\* c in s, for a single character c
HasChar(s, c) == \E i \in 1..Len(s) : s[i] = c

\* s.split(c)[-1]: the text after the last c, the whole of s when c is absent
AfterLast(s, c) ==
    LET I == {i \in 1..Len(s) : s[i] = c}
    IN  IF I = {} THEN s ELSE SubSeq(s, Max(I) + 1, Len(s))

\* sub occurs in s at position i
IsAt(s, i, sub) == i >= 1 /\ i + Len(sub) - 1 <= Len(s) /\ SubSeq(s, i, i + Len(sub) - 1) = sub

\* sub in s
Contains(s, sub) == \E i \in 1..(Len(s) + 1) : IsAt(s, i, sub)

\* s.split(sub)[0]: the text before the first occurrence of sub
BeforeFirst(s, sub) ==
    LET I == {i \in 1..(Len(s) + 1) : IsAt(s, i, sub)}
    IN  IF I = {} THEN s ELSE SubSeq(s, 1, Min(I) - 1)

\* The characters str.strip() and str.split() treat as whitespace.
Whitespace == {" ", "\t", "\n"}

\* s.strip()
Strip(s) ==
    LET I == {i \in 1..Len(s) : s[i] \notin Whitespace}
    IN  IF I = {} THEN <<>> ELSE SubSeq(s, Min(I), Max(I))

\* s.split() is the empty list
NoToken(s) == \A i \in 1..Len(s) : s[i] \in Whitespace

\* s.split()[0], for s with at least one token
FirstToken(s) ==
    LET I == {i \in 1..Len(s) : s[i] \notin Whitespace}
        b == Min(I)
        E == {j \in b..Len(s) : j = Len(s) \/ s[j + 1] \in Whitespace}
    IN  SubSeq(s, b, Min(E))

RECURSIVE Join(_)
\* ''.join(parts)
Join(parts) == IF parts = <<>> THEN <<>> ELSE Head(parts) \o Join(Tail(parts))

\* All strings over alphabet A of length at most n.
StringsUpTo(A, n) == UNION {[1..k -> A] : k \in 0..n}

---------------------------------------------------------------------------
\* Configuration (module level constants of owl2json.py).

BASE_IRI == <<"h","t","t","p",":","/","/","m","y","o","n","t","o",".","c","o","m","/","P","a","n","R","e","s","O","n","t","o","l","o","g","y",".","o","w","l","#">>

XSD_NS == <<"h","t","t","p",":","/","/","w","w","w",".","w","3",".","o","r","g","/","2","0","0","1","/","X","M","L","S","c","h","e","m","a","#">>

RDF_NS == <<"h","t","t","p",":","/","/","w","w","w",".","w","3",".","o","r","g","/","1","9","9","9","/","0","2","/","2","2","-","r","d","f","-","s","y","n","t","a","x","-","n","s","#">>

RDFS_NS == <<"h","t","t","p",":","/","/","w","w","w",".","w","3",".","o","r","g","/","2","0","0","0","/","0","1","/","r","d","f","-","s","c","h","e","m","a","#">>

OWL_NS == <<"h","t","t","p",":","/","/","w","w","w",".","w","3",".","o","r","g","/","2","0","0","2","/","0","7","/","o","w","l","#">>

\* The namespace table, in the dict's insertion order.
NAMESPACES ==
    << [namespace |-> BASE_IRI, prefix |-> <<>>],
       [namespace |-> XSD_NS,   prefix |-> <<"x","s","d",":">>],
       [namespace |-> RDF_NS,   prefix |-> <<"r","d","f",":">>],
       [namespace |-> RDFS_NS,  prefix |-> <<"r","d","f","s",":">>],
       [namespace |-> OWL_NS,   prefix |-> <<"o","w","l",":">>] >>

---------------------------------------------------------------------------
\* clean_uri

\* Variant of clean_uri that strips the matched namespace and keeps the
\* whole remainder, instead of taking the text after the last '#'.
clean_uri_strip(s) ==
    LET M == {i \in 1..Len(NAMESPACES) : StartsWith(s, NAMESPACES[i].namespace)}
    IN  IF M = {} THEN s
        ELSE NAMESPACES[Min(M)].prefix
                 \o SubSeq(s, Len(NAMESPACES[Min(M)].namespace) + 1, Len(s))

\* Variant of clean_uri that never adds the short prefix.
clean_uri_noprefix(s) ==
    LET M == {i \in 1..Len(NAMESPACES) : StartsWith(s, NAMESPACES[i].namespace)}
    IN  IF M = {} THEN s
        ELSE IF HasChar(s, "#") THEN AfterLast(s, "#") ELSE AfterLast(s, "/")

\* clean_uri(uri_str): the first namespace of the table that uri_str starts
\* with decides the prefix; the fragment is the text after the last '#' of
\* the whole string (after the last '/' when it has no '#').
clean_uri(s) ==
    LET M == {i \in 1..Len(NAMESPACES) : StartsWith(s, NAMESPACES[i].namespace)}
    IN  IF M = {} THEN s
        ELSE LET prefix == NAMESPACES[Min(M)].prefix
                 fragment == IF HasChar(s, "#") THEN AfterLast(s, "#")
                                                ELSE AfterLast(s, "/")
             IN  prefix \o fragment

---------------------------------------------------------------------------
\* parse_fasta

\* Python's None, as the value of current_id before the first header.
None == <<"<None>">>

\* `if current_id:` is false for None and for the empty string.
Truthy(id) == id # None /\ id # <<>>

VERSION_MARKER == <<"_","v">>

IDENTICAL_MARKER == <<"_","i","d","e","n","t","i","c","a","l">>

\* Variant of header_id that cuts at the last '_v' (rsplit) instead of the first.
header_id_rsplit(header) ==
    IF Contains(header, VERSION_MARKER) /\ Contains(header, IDENTICAL_MARKER)
    THEN SubSeq(header, 1,
                Max({i \in 1..Len(header) : IsAt(header, i, VERSION_MARKER)}) - 1)
    ELSE header

\* The identifier stored for a header token: cut before the first '_v' when
\* the token contains both '_v' and '_identical', in whatever order.
header_id(header) ==
    IF Contains(header, VERSION_MARKER) /\ Contains(header, IDENTICAL_MARKER)
    THEN BeforeFirst(header, VERSION_MARKER)
    ELSE header

\* Variant of fasta_line that forgets `current_seq = []` at a header.
fasta_line_noreset(st, raw) ==
    LET line == Strip(raw)
    IN  IF StartsWith(line, <<">">>)
        THEN LET saved == IF Truthy(st.current_id)
                          THEN Put(st.sequences, st.current_id, Join(st.current_seq))
                          ELSE st.sequences
             IN  IF NoToken(Tail(line))
                 THEN [st EXCEPT !.sequences = saved, !.raised = TRUE]
                 ELSE [current_id  |-> header_id(FirstToken(Tail(line))),
                       current_seq |-> st.current_seq,
                       sequences   |-> saved,
                       raised      |-> FALSE]
        ELSE [st EXCEPT !.current_seq = Append(@, line)]

\* One iteration of `for line in f`. st holds the loop's locals; raised is
\* set when line[1:].split()[0] raises IndexError (a header with no token).
fasta_line(st, raw) ==
    LET line == Strip(raw)
    IN  IF StartsWith(line, <<">">>)
        THEN LET saved == IF Truthy(st.current_id)
                          THEN Put(st.sequences, st.current_id, Join(st.current_seq))
                          ELSE st.sequences
             IN  IF NoToken(Tail(line))
                 THEN [st EXCEPT !.sequences = saved, !.raised = TRUE]
                 ELSE [current_id  |-> header_id(FirstToken(Tail(line))),
                       current_seq |-> <<>>,
                       sequences   |-> saved,
                       raised      |-> FALSE]
        ELSE [st EXCEPT !.current_seq = Append(@, line)]

\* The locals before the loop.
fasta_start == [current_id |-> None, current_seq |-> <<>>,
                sequences |-> EmptyMap, raised |-> FALSE]

\* "Save last sequence" after the loop.
fasta_finish(st) ==
    IF Truthy(st.current_id)
    THEN Put(st.sequences, st.current_id, Join(st.current_seq))
    ELSE st.sequences

RECURSIVE fasta_loop(_, _)
\* The whole loop over the lines of a file; stops at the line that raises.
fasta_loop(st, lines) ==
    IF lines = <<>> \/ st.raised THEN st
    ELSE fasta_loop(fasta_line(st, Head(lines)), Tail(lines))

\* parse_fasta(fasta_file) as one call: the returned mapping, or raised.
\* A file is [exists |-> BOOLEAN, lines |-> sequence of raw lines].
parse_fasta(file) ==
    IF ~file.exists THEN [raised |-> FALSE, sequences |-> EmptyMap]
    ELSE LET st == fasta_loop(fasta_start, file.lines)
         IN  IF st.raised THEN [raised |-> TRUE, sequences |-> EmptyMap]
             ELSE [raised |-> FALSE, sequences |-> fasta_finish(st)]

---------------------------------------------------------------------------
\* RDF terms and the input graph.

\* rdflib terms: URIRef, Literal and BNode, each with its str().
URIRef(s) == [kind |-> "uri", str |-> s]

Literal(s) == [kind |-> "literal", str |-> s]

BNode(s) == [kind |-> "bnode", str |-> s]

Triple(s, p, o) == [s |-> s, p |-> p, o |-> o]

RDF_TYPE == <<"r","d","f",":","t","y","p","e">>

RDFS_LABEL == <<"r","d","f","s",":","l","a","b","e","l">>

HAS_RESISTANCE_CLASS == <<"h","a","s","_","r","e","s","i","s","t","a","n","c","e","_","c","l","a","s","s">>

HAS_PREDICTED_PHENOTYPE == <<"h","a","s","_","p","r","e","d","i","c","t","e","d","_","p","h","e","n","o","t","y","p","e">>

HAS_MECHANISM_OF_RESISTANCE == <<"h","a","s","_","m","e","c","h","a","n","i","s","m","_","o","f","_","r","e","s","i","s","t","a","n","c","e">>

IS_FROM_DATABASE == <<"i","s","_","f","r","o","m","_","d","a","t","a","b","a","s","e">>

pangene_types == { <<"P","a","n","G","e","n","e">>, <<"A","n","t","i","m","i","c","r","o","b","i","a","l","R","e","s","i","s","t","a","n","c","e","G","e","n","e">>,
                   <<"B","i","o","c","i","d","e","R","e","s","i","s","t","a","n","c","e","G","e","n","e">>, <<"M","e","t","a","l","R","e","s","i","s","t","a","n","c","e","G","e","n","e">> }

ORIGINAL_GENE == <<"O","r","i","g","i","n","a","l","G","e","n","e">>

\* Terms the input graphs are made of.
Gene1 == URIRef(BASE_IRI \o <<"G","e","n","e","1">>)

Beta == URIRef(BASE_IRI \o <<"B","e","t","a">>)

Blank == BNode(<<"N","0">>)

PType == URIRef(RDF_NS \o <<"t","y","p","e">>)

PLabel == URIRef(RDFS_NS \o <<"l","a","b","e","l">>)

PClass == URIRef(BASE_IRI \o HAS_RESISTANCE_CLASS)

PPhenotype == URIRef(BASE_IRI \o HAS_PREDICTED_PHENOTYPE)

PMechanism == URIRef(BASE_IRI \o HAS_MECHANISM_OF_RESISTANCE)

PDatabase == URIRef(BASE_IRI \o IS_FROM_DATABASE)

CPanGene == URIRef(BASE_IRI \o <<"P","a","n","G","e","n","e">>)

COriginalGene == URIRef(BASE_IRI \o ORIGINAL_GENE)

\* The triples an input graph may hold.
CandidateTriples ==
    { Triple(Gene1, PType, CPanGene),
      Triple(Gene1, PType, COriginalGene),
      Triple(Gene1, PClass, Beta),
      Triple(Gene1, PPhenotype, Beta),
      Triple(Gene1, PMechanism, Beta),
      Triple(Gene1, PDatabase, Beta),
      Triple(Gene1, PClass, Literal(<<"B","e","t","a">>)),
      Triple(Beta, PLabel, Literal(<<"B","e","t","a","-","l","a","c","t","a","m","a","s","e">>)),
      Triple(Beta, PClass, Blank),
      Triple(Blank, PType, CPanGene) }

\* A graph is a set of triples (rdflib stores no duplicates).
Graphs == {g \in SUBSET CandidateTriples : Cardinality(g) <= MaxTriples}

\* The FASTA files found beside the script: none, a gene and a protein
\* file with one record each, or a gene file with a header without identifier.
MissingFile == [exists |-> FALSE, lines |-> <<>>]

FastaPairs ==
    { [genes |-> MissingFile, proteins |-> MissingFile],
      [genes    |-> [exists |-> TRUE, lines |-> << <<">","G","e","n","e","1"," ","f","i","r","s","t"," ","g","e","n","e","\n">>, <<"A","C","G","T","\n">> >>],
       proteins |-> [exists |-> TRUE, lines |-> << <<">","B","e","t","a","_","v","1","_","i","d","e","n","t","i","c","a","l","\n">>, <<"M","K","\n">> >>]],
      [genes |-> [exists |-> TRUE, lines |-> << <<">","\n">> >>], proteins |-> MissingFile] }

---------------------------------------------------------------------------
\* convert_owl_to_json: the pieces of the three loops.

EmptyCategories ==
    [PanGene |-> <<>>, OriginalGene |-> <<>>, AntibioticClass |-> <<>>,
     Phenotype |-> <<>>, Mechanism |-> <<>>, Database |-> <<>>]

\* The `data` dict as created, before the triple count is known.
EmptyData ==
    [subjects |-> EmptyMap, categories |-> EmptyCategories,
     metadata |-> [total_triples |-> 0, total_subjects |-> 0]]

\* What the defaultdict creates for a subject on first access.
NewSubject == [types |-> <<>>, properties |-> EmptyMap]

\* Variant of first_pass_step that keeps blank-node objects, recording
\* them like resources.
first_pass_step_keep_blank(sp, order, t) ==
    IF t.s.kind # "uri" THEN [props |-> sp, order |-> order]
    ELSE
        LET subj_id  == clean_uri(t.s.str)
            pred_id  == clean_uri(t.p.str)
            obj_data == IF t.o.kind = "literal"
                        THEN [value |-> t.o.str, is_literal |-> TRUE]
                        ELSE [value |-> clean_uri(t.o.str), is_literal |-> FALSE]
            old      == IF subj_id \in DOMAIN sp THEN sp[subj_id] ELSE NewSubject
            oldvals  == IF pred_id \in DOMAIN old.properties
                        THEN old.properties[pred_id] ELSE <<>>
            new      == [types |-> IF pred_id = RDF_TYPE
                                   THEN Append(old.types, obj_data.value)
                                   ELSE old.types,
                         properties |-> Put(old.properties, pred_id,
                                            Append(oldvals, obj_data))]
        IN  [props |-> Put(sp, subj_id, new),
             order |-> IF subj_id \in DOMAIN sp THEN order ELSE Append(order, subj_id)]

\* Variant of first_pass_step that overwrites the type list with the
\* latest type instead of appending to it.
first_pass_step_last_type(sp, order, t) ==
    IF t.s.kind # "uri" \/ t.o.kind = "bnode" THEN [props |-> sp, order |-> order]
    ELSE
        LET subj_id  == clean_uri(t.s.str)
            pred_id  == clean_uri(t.p.str)
            obj_data == IF t.o.kind = "literal"
                        THEN [value |-> t.o.str, is_literal |-> TRUE]
                        ELSE [value |-> clean_uri(t.o.str), is_literal |-> FALSE]
            old      == IF subj_id \in DOMAIN sp THEN sp[subj_id] ELSE NewSubject
            oldvals  == IF pred_id \in DOMAIN old.properties
                        THEN old.properties[pred_id] ELSE <<>>
            new      == [types |-> IF pred_id = RDF_TYPE
                                   THEN <<obj_data.value>>
                                   ELSE old.types,
                         properties |-> Put(old.properties, pred_id,
                                            Append(oldvals, obj_data))]
        IN  [props |-> Put(sp, subj_id, new),
             order |-> IF subj_id \in DOMAIN sp THEN order ELSE Append(order, subj_id)]

\* The body of `for subj, pred, obj in graph`, for triple t: sp is
\* subject_props and order the insertion order of its keys. A triple with a
\* non-URIRef subject or a blank-node object changes nothing.
first_pass_step(sp, order, t) ==
    IF t.s.kind # "uri" \/ t.o.kind = "bnode" THEN [props |-> sp, order |-> order]
    ELSE
        LET subj_id  == clean_uri(t.s.str)
            pred_id  == clean_uri(t.p.str)
            obj_data == IF t.o.kind = "literal"
                        THEN [value |-> t.o.str, is_literal |-> TRUE]
                        ELSE [value |-> clean_uri(t.o.str), is_literal |-> FALSE]
            old      == IF subj_id \in DOMAIN sp THEN sp[subj_id] ELSE NewSubject
            oldvals  == IF pred_id \in DOMAIN old.properties
                        THEN old.properties[pred_id] ELSE <<>>
            new      == [types |-> IF pred_id = RDF_TYPE
                                   THEN Append(old.types, obj_data.value)
                                   ELSE old.types,
                         properties |-> Put(old.properties, pred_id,
                                            Append(oldvals, obj_data))]
        IN  [props |-> Put(sp, subj_id, new),
             order |-> IF subj_id \in DOMAIN sp THEN order ELSE Append(order, subj_id)]

\* Variant of role_targets that collects the literal values only.
role_targets_literal(props, pred) ==
    IF pred \in DOMAIN props.properties
    THEN {props.properties[pred][i].value :
              i \in {j \in 1..Len(props.properties[pred]) :
                         props.properties[pred][j].is_literal}}
    ELSE {}

\* Variant of role_targets that collects every value, literal or not.
role_targets_all(props, pred) ==
    IF pred \in DOMAIN props.properties
    THEN {props.properties[pred][i].value : i \in 1..Len(props.properties[pred])}
    ELSE {}

\* The values one subject adds to a role set: the non-literal values of
\* predicate pred.
role_targets(props, pred) ==
    IF pred \in DOMAIN props.properties
    THEN {props.properties[pred][i].value :
              i \in {j \in 1..Len(props.properties[pred]) :
                         ~props.properties[pred][j].is_literal}}
    ELSE {}

\* The label: the first rdfs:label value, else the identifier.
label_of(subj_id, props) ==
    IF RDFS_LABEL \in DOMAIN props.properties /\ props.properties[RDFS_LABEL] # <<>>
    THEN props.properties[RDFS_LABEL][1].value
    ELSE subj_id

\* The entry stored in data['subjects'], with the sequences attached.
subject_entry(subj_id, props, genes, proteins) ==
    [id |-> subj_id, label |-> label_of(subj_id, props),
     types |-> props.types, properties |-> props.properties]
    @@ (IF subj_id \in DOMAIN genes
        THEN [gene_sequence |-> genes[subj_id]] ELSE EmptyMap)
    @@ (IF subj_id \in DOMAIN proteins
        THEN [protein_sequence |-> proteins[subj_id]] ELSE EmptyMap)

Range(s) == {s[i] : i \in 1..Len(s)}

AppendIf(cond, list, x) == IF cond THEN Append(list, x) ELSE list

\* The category lists after the "Categorize" block for subject subj_id.
categorize(cats, subj_id, props, cs, ps, ms, ds) ==
    [PanGene         |-> AppendIf(Range(props.types) \cap pangene_types # {},
                                  cats.PanGene, subj_id),
     OriginalGene    |-> AppendIf(ORIGINAL_GENE \in Range(props.types),
                                  cats.OriginalGene, subj_id),
     AntibioticClass |-> AppendIf(subj_id \in cs, cats.AntibioticClass, subj_id),
     Phenotype       |-> AppendIf(subj_id \in ps, cats.Phenotype, subj_id),
     Mechanism       |-> AppendIf(subj_id \in ms, cats.Mechanism, subj_id),
     Database        |-> AppendIf(subj_id \in ds, cats.Database, subj_id)]

---------------------------------------------------------------------------
\* Values of the variables of a component that is not running.
MainIdle ==
    /\ pc = "idle" /\ exit_status = "running"
    /\ download_ok = "pending" /\ parse_ok = "pending"
    /\ graph = {} /\ todo = {}
    /\ subject_props = EmptyMap /\ subj_order = <<>>
    /\ class_subjects = {} /\ phenotype_subjects = {}
    /\ mechanism_subjects = {} /\ database_subjects = {}
    /\ scan_i = 0 /\ build_i = 0
    /\ data = EmptyData
    /\ gene_sequences = EmptyMap /\ protein_sequences = EmptyMap
    /\ json_file = [written |-> FALSE, content |-> EmptyData]

FastaIdle ==
    /\ fasta_file = [exists |-> FALSE, lines |-> <<>>]
    /\ line_i = 0 /\ current_id = None /\ current_seq = <<>>
    /\ sequences = EmptyMap /\ fpc = "idle"

UriIdle ==
    /\ uri_str = <<>> /\ uri_once = <<>> /\ uri_twice = <<>> /\ upc = "idle"

---------------------------------------------------------------------------
\* The run of the script.

Init ==
    /\ FastaIdle /\ UriIdle
    /\ pc = "start" /\ exit_status = "running"
    /\ download_ok = "pending" /\ parse_ok = "pending"
    /\ graph \in Graphs /\ todo = {}
    /\ subject_props = EmptyMap /\ subj_order = <<>>
    /\ class_subjects = {} /\ phenotype_subjects = {}
    /\ mechanism_subjects = {} /\ database_subjects = {}
    /\ scan_i = 0 /\ build_i = 0
    /\ data = EmptyData
    /\ gene_sequences = EmptyMap /\ protein_sequences = EmptyMap
    /\ json_file = [written |-> FALSE, content |-> EmptyData]

passVars == <<subject_props, subj_order, class_subjects, phenotype_subjects,
              mechanism_subjects, database_subjects, scan_i, build_i>>

\* download_owl_file returns True.
DownloadOk ==
    /\ pc = "start"
    /\ download_ok' = "yes"
    /\ pc' = "parse"
    /\ UNCHANGED <<exit_status, parse_ok, graph, todo, passVars, data,
                   gene_sequences, protein_sequences, json_file, fastaVars, uriVars>>

\* Variant of DownloadFail in which the return value is ignored and the
\* conversion is started on whatever file is there.
DownloadFail_ignored ==
    /\ pc = "start"
    /\ download_ok' = "no"
    /\ pc' = "parse"
    /\ UNCHANGED <<exit_status, parse_ok, graph, todo, passVars, data,
                   gene_sequences, protein_sequences, json_file, fastaVars, uriVars>>

\* download_owl_file catches an exception and returns False: sys.exit(1).
DownloadFail ==
    /\ pc = "start"
    /\ download_ok' = "no"
    /\ pc' = "exited"
    /\ exit_status' = "1"
    /\ UNCHANGED <<parse_ok, graph, todo, passVars, data,
                   gene_sequences, protein_sequences, json_file, fastaVars, uriVars>>

\* graph.parse succeeds.
ParseOk ==
    /\ pc = "parse"
    /\ parse_ok' = "yes"
    /\ pc' = "fasta"
    /\ UNCHANGED <<exit_status, download_ok, graph, todo, passVars, data,
                   gene_sequences, protein_sequences, json_file, fastaVars, uriVars>>

\* graph.parse raises: sys.exit(1).
ParseFail ==
    /\ pc = "parse"
    /\ parse_ok' = "no"
    /\ pc' = "exited"
    /\ exit_status' = "1"
    /\ UNCHANGED <<download_ok, graph, todo, passVars, data,
                   gene_sequences, protein_sequences, json_file, fastaVars, uriVars>>

\* Both parse_fasta calls; an IndexError in either is not caught.
ParseSequences ==
    /\ pc = "fasta"
    /\ \E files \in FastaPairs :
           LET g == parse_fasta(files.genes)
               p == parse_fasta(files.proteins)
           IN  IF g.raised \/ p.raised
               THEN /\ pc' = "crashed"
                    /\ exit_status' = "1"
                    /\ UNCHANGED <<gene_sequences, protein_sequences>>
               ELSE /\ pc' = "init_data"
                    /\ gene_sequences' = g.sequences
                    /\ protein_sequences' = p.sequences
                    /\ UNCHANGED exit_status
    /\ UNCHANGED <<download_ok, parse_ok, graph, todo, passVars, data,
                   json_file, fastaVars, uriVars>>

\* `data` and `subject_props` are created.
InitData ==
    /\ pc = "init_data"
    /\ data' = [EmptyData EXCEPT !.metadata.total_triples = Cardinality(graph)]
    /\ subject_props' = EmptyMap
    /\ subj_order' = <<>>
    /\ todo' = graph
    /\ pc' = "first_pass"
    /\ UNCHANGED <<exit_status, download_ok, parse_ok, graph,
                   class_subjects, phenotype_subjects, mechanism_subjects,
                   database_subjects, scan_i, build_i,
                   gene_sequences, protein_sequences, json_file, fastaVars, uriVars>>

\* First pass: the graph yields one more triple, in an order of its own.
FirstPassTriple ==
    /\ pc = "first_pass"
    /\ \E t \in todo :
           LET r == first_pass_step(subject_props, subj_order, t)
           IN  /\ subject_props' = r.props
               /\ subj_order' = r.order
               /\ todo' = todo \ {t}
    /\ UNCHANGED <<pc, exit_status, download_ok, parse_ok, graph,
                   class_subjects, phenotype_subjects, mechanism_subjects,
                   database_subjects, scan_i, build_i, data,
                   gene_sequences, protein_sequences, json_file, fastaVars, uriVars>>

\* The graph is exhausted; the four role sets are created.
FirstPassDone ==
    /\ pc = "first_pass"
    /\ todo = {}
    /\ class_subjects' = {} /\ phenotype_subjects' = {}
    /\ mechanism_subjects' = {} /\ database_subjects' = {}
    /\ scan_i' = 1
    /\ pc' = "scan"
    /\ UNCHANGED <<exit_status, download_ok, parse_ok, graph, todo,
                   subject_props, subj_order, build_i, data,
                   gene_sequences, protein_sequences, json_file, fastaVars, uriVars>>

\* Role scan: one subject of subject_props, in insertion order.
ScanSubject ==
    /\ pc = "scan"
    /\ scan_i <= Len(subj_order)
    /\ LET props == subject_props[subj_order[scan_i]]
       IN  /\ class_subjects' =
                  class_subjects \cup role_targets(props, HAS_RESISTANCE_CLASS)
           /\ phenotype_subjects' =
                  phenotype_subjects \cup role_targets(props, HAS_PREDICTED_PHENOTYPE)
           /\ mechanism_subjects' =
                  mechanism_subjects \cup role_targets(props, HAS_MECHANISM_OF_RESISTANCE)
           /\ database_subjects' =
                  database_subjects \cup role_targets(props, IS_FROM_DATABASE)
    /\ scan_i' = scan_i + 1
    /\ UNCHANGED <<pc, exit_status, download_ok, parse_ok, graph, todo,
                   subject_props, subj_order, build_i, data,
                   gene_sequences, protein_sequences, json_file, fastaVars, uriVars>>

\* The scan is over; the building loop starts.
ScanDone ==
    /\ pc = "scan"
    /\ scan_i > Len(subj_order)
    /\ build_i' = 1
    /\ pc' = "build"
    /\ UNCHANGED <<exit_status, download_ok, parse_ok, graph, todo,
                   subject_props, subj_order, class_subjects, phenotype_subjects,
                   mechanism_subjects, database_subjects, scan_i, data,
                   gene_sequences, protein_sequences, json_file, fastaVars, uriVars>>

\* Building loop, first half: the entry is built and stored in subjects.
BuildEntry ==
    /\ pc = "build"
    /\ build_i <= Len(subj_order)
    /\ LET subj_id == subj_order[build_i]
       IN  data' = [data EXCEPT !.subjects =
                        Put(@, subj_id,
                            subject_entry(subj_id, subject_props[subj_id],
                                          gene_sequences, protein_sequences))]
    /\ pc' = "categorize"
    /\ UNCHANGED <<exit_status, download_ok, parse_ok, graph, todo, passVars,
                   gene_sequences, protein_sequences, json_file, fastaVars, uriVars>>

\* Variant of Categorize that files a subject's role targets themselves
\* under the role categories, instead of testing the subject's membership.
Categorize_targets ==
    /\ pc = "categorize"
    /\ LET subj_id == subj_order[build_i]
           props   == subject_props[subj_id]
           vals(p) == IF p \in DOMAIN props.properties
                      THEN [i \in 1..Len(props.properties[p]) |->
                                props.properties[p][i].value]
                      ELSE <<>>
           c       == categorize(data.categories, subj_id, props, {}, {}, {}, {})
       IN  data' = [data EXCEPT !.categories =
                        [c EXCEPT !.AntibioticClass = @ \o vals(HAS_RESISTANCE_CLASS),
                                  !.Phenotype = @ \o vals(HAS_PREDICTED_PHENOTYPE),
                                  !.Mechanism = @ \o vals(HAS_MECHANISM_OF_RESISTANCE),
                                  !.Database = @ \o vals(IS_FROM_DATABASE)]]
    /\ build_i' = build_i + 1
    /\ pc' = "build"
    /\ UNCHANGED <<exit_status, download_ok, parse_ok, graph, todo,
                   subject_props, subj_order, class_subjects, phenotype_subjects,
                   mechanism_subjects, database_subjects, scan_i,
                   gene_sequences, protein_sequences, json_file, fastaVars, uriVars>>

\* Building loop, second half: the subject is filed under its categories.
Categorize ==
    /\ pc = "categorize"
    /\ LET subj_id == subj_order[build_i]
       IN  data' = [data EXCEPT !.categories =
                        categorize(@, subj_id, subject_props[subj_id],
                                   class_subjects, phenotype_subjects,
                                   mechanism_subjects, database_subjects)]
    /\ build_i' = build_i + 1
    /\ pc' = "build"
    /\ UNCHANGED <<exit_status, download_ok, parse_ok, graph, todo,
                   subject_props, subj_order, class_subjects, phenotype_subjects,
                   mechanism_subjects, database_subjects, scan_i,
                   gene_sequences, protein_sequences, json_file, fastaVars, uriVars>>

\* After the loop: the subject count is recorded.
Finalize ==
    /\ pc = "build"
    /\ build_i > Len(subj_order)
    /\ data' = [data EXCEPT !.metadata.total_subjects = Cardinality(DOMAIN data.subjects)]
    /\ pc' = "write"
    /\ UNCHANGED <<exit_status, download_ok, parse_ok, graph, todo, passVars,
                   gene_sequences, protein_sequences, json_file, fastaVars, uriVars>>

\* json.dump of the finished document; the script ends with status 0.
WriteJson ==
    /\ pc = "write"
    /\ json_file' = [written |-> TRUE, content |-> data]
    /\ pc' = "done"
    /\ exit_status' = "0"
    /\ UNCHANGED <<download_ok, parse_ok, graph, todo, passVars, data,
                   gene_sequences, protein_sequences, fastaVars, uriVars>>

\* An exception in the building loop (nothing catches it): the script ends
\* with a traceback and status 1.
Abort ==
    /\ pc \in {"build", "categorize"}
    /\ pc' = "crashed"
    /\ exit_status' = "1"
    /\ UNCHANGED <<download_ok, parse_ok, graph, todo, passVars, data,
                   gene_sequences, protein_sequences, json_file, fastaVars, uriVars>>

Next ==
    \/ DownloadOk \/ DownloadFail
    \/ ParseOk \/ ParseFail
    \/ ParseSequences
    \/ InitData
    \/ FirstPassTriple \/ FirstPassDone
    \/ ScanSubject \/ ScanDone
    \/ BuildEntry \/ Categorize
    \/ Finalize
    \/ WriteJson
    \/ Abort

Spec == Init /\ [][Next]_vars

---------------------------------------------------------------------------
\* parse_fasta and clean_uri run on their own.

\* The raw lines the FASTA inputs are made of: headers with and without a
\* version suffix, a header with no identifier, and sequence lines.
FastaLineChoices ==
    { <<">","p","a","n","_","4","2","_","v","1",".","0",".","1","_","i","d","e","n","t","i","c","a","l">>,
      <<">","p","a","n","_","4","2"," ","g","e","n","e","\n">>,
      <<">","_","v","1","_","i","d","e","n","t","i","c","a","l">>,
      <<">","P","a","n","_","7","_","v","2","_","i","d","e","n","t","i","c","a","l","_","x">>,
      <<" ",">","q","_","v","a","r","_","v","2","_","i","d","e","n","t","i","c","a","l","\n">>,
      <<">","\n">>,
      <<"A","C","G","T">>,
      <<"G","G","C","C">>,
      <<" ","T","T"," ","\n">> }

FastaFiles ==
    {[exists |-> FALSE, lines |-> <<>>]}
    \cup {[exists |-> TRUE, lines |-> l] :
              l \in UNION {[1..n -> FastaLineChoices] : n \in 0..MaxLines}}

InitFasta ==
    /\ MainIdle /\ UriIdle
    /\ fasta_file \in FastaFiles
    /\ line_i = 0 /\ current_id = None /\ current_seq = <<>>
    /\ sequences = EmptyMap /\ fpc = "start"

\* os.path.exists, then the locals are set and the file is opened.
FastaOpen ==
    /\ fpc = "start"
    /\ IF fasta_file.exists
       THEN /\ fpc' = "loop"
            /\ line_i' = 1
            /\ current_id' = fasta_start.current_id
            /\ current_seq' = fasta_start.current_seq
            /\ sequences' = fasta_start.sequences
       ELSE /\ fpc' = "done"
            /\ sequences' = EmptyMap
            /\ UNCHANGED <<line_i, current_id, current_seq>>
    /\ UNCHANGED <<fasta_file, mainVars, uriVars>>

\* One line of the file goes through the loop body.
FastaReadLine ==
    /\ fpc = "loop"
    /\ line_i <= Len(fasta_file.lines)
    /\ LET st == fasta_line([current_id |-> current_id, current_seq |-> current_seq,
                             sequences |-> sequences, raised |-> FALSE],
                            fasta_file.lines[line_i])
       IN  /\ current_id' = st.current_id
           /\ current_seq' = st.current_seq
           /\ sequences' = st.sequences
           /\ fpc' = IF st.raised THEN "error" ELSE "loop"
           /\ line_i' = IF st.raised THEN line_i ELSE line_i + 1
    /\ UNCHANGED <<fasta_file, mainVars, uriVars>>

\* End of file: the last record is saved and the mapping returned.
FastaEndOfFile ==
    /\ fpc = "loop"
    /\ line_i > Len(fasta_file.lines)
    /\ sequences' = fasta_finish([current_id |-> current_id, current_seq |-> current_seq,
                                  sequences |-> sequences, raised |-> FALSE])
    /\ fpc' = "done"
    /\ UNCHANGED <<fasta_file, line_i, current_id, current_seq, mainVars, uriVars>>

NextFasta == FastaOpen \/ FastaReadLine \/ FastaEndOfFile

SpecFasta == InitFasta /\ [][NextFasta]_vars

---------------------------------------------------------------------------
\* clean_uri applied to an input, and again to its own result.

FragAlphabet == {"a", "#", "/"}

Fragments == StringsUpTo(FragAlphabet, MaxFrag)

KnownNamespaces == {NAMESPACES[i].namespace : i \in 1..Len(NAMESPACES)}

\* Strings with no known namespace, with one, and with one followed by another.
UriInputs ==
    Fragments
    \cup {ns \o f : ns \in KnownNamespaces, f \in Fragments}
    \cup {ns \o ns2 \o f : ns \in KnownNamespaces, ns2 \in KnownNamespaces, f \in Fragments}

InitUri ==
    /\ MainIdle /\ FastaIdle
    /\ uri_str \in UriInputs
    /\ uri_once = <<>> /\ uri_twice = <<>> /\ upc = "start"

UriClean ==
    /\ upc = "start"
    /\ uri_once' = clean_uri(uri_str)
    /\ upc' = "cleaned"
    /\ UNCHANGED <<uri_str, uri_twice, mainVars, fastaVars>>

UriCleanAgain ==
    /\ upc = "cleaned"
    /\ uri_twice' = clean_uri(uri_once)
    /\ upc' = "twice"
    /\ UNCHANGED <<uri_str, uri_once, mainVars, fastaVars>>

NextUri == UriClean \/ UriCleanAgain

SpecUri == InitUri /\ [][NextUri]_vars

---------------------------------------------------------------------------
\* Properties of clean_uri, stated for SpecUri.

\* The entries of the namespace table that s starts with.
Matching(s) == {i \in 1..Len(NAMESPACES) : StartsWith(s, NAMESPACES[i].namespace)}

\* s with the namespace of table entry i taken off its front.
Remainder(s, i) == SubSeq(s, Len(NAMESPACES[i].namespace) + 1, Len(s))

\* C6 as stated: an IRI that starts with a known namespace is shortened to
\* that namespace's prefix followed by everything after the namespace, and
\* an IRI that starts with none is returned unchanged.
C6_PrefixPlusRemainder ==
    upc \in {"cleaned", "twice"} =>
        /\ \A i \in Matching(uri_str) :
               uri_once = NAMESPACES[i].prefix \o Remainder(uri_str, i)
        /\ Matching(uri_str) = {} => uri_once = uri_str

\* C6 as amended: an IRI that starts with a known namespace is shortened to
\* that namespace's prefix followed by the text after the LAST '#' of the
\* IRI, that is by the longest suffix of the remainder holding no '#'; this
\* is the whole remainder exactly when the remainder holds no further '#'.
\* An IRI that starts with no known namespace is returned unchanged.
C6_PrefixPlusLastFragment ==
    upc \in {"cleaned", "twice"} =>
        /\ \A i \in Matching(uri_str) :
               LET rest == Remainder(uri_str, i)
               IN  \E k \in 0..Len(rest) :
                       /\ uri_once = NAMESPACES[i].prefix \o SubSeq(rest, k + 1, Len(rest))
                       /\ \A m \in (k + 1)..Len(rest) : rest[m] # "#"
                       /\ k = 0 \/ rest[k] = "#"
        /\ Matching(uri_str) = {} => uri_once = uri_str

\* An XSD IRI whose local part holds a further '#' has been shortened.
C6_Witness ==
    /\ upc = "cleaned"
    /\ uri_str = XSD_NS \o <<"#", "a">>
    /\ uri_once = <<"x","s","d",":","a">>

\* C7: the shortened form of an IRI of a known namespace starts with no
\* known namespace, and shortening it again returns it unchanged.
C7_Idempotent ==
    (upc = "twice" /\ Matching(uri_str) # {}) =>
        /\ Matching(uri_once) = {}
        /\ uri_twice = uri_once

\* An IRI made of the base namespace followed by the OWL namespace and a
\* local name has been shortened twice.
C7_Witness ==
    /\ upc = "twice"
    /\ uri_str = BASE_IRI \o OWL_NS \o <<"a">>
    /\ uri_once = <<"a">>
    /\ uri_twice = <<"a">>

---------------------------------------------------------------------------
\* Properties of parse_fasta, stated for SpecFasta.

\* Line i of the file is a header line.
IsHeaderLine(i) == StartsWith(Strip(fasta_file.lines[i]), <<">">>)

\* The identifier of header line i: the first token after '>'.
HeaderToken(i) == FirstToken(Tail(Strip(fasta_file.lines[i])))

\* h holds the version marker followed later by the "_identical" marker.
HasVersionSuffix(h) ==
    \E j \in 1..Len(h), k \in 1..Len(h) :
        IsAt(h, j, VERSION_MARKER) /\ IsAt(h, k, IDENTICAL_MARKER) /\ k >= j + Len(VERSION_MARKER)

\* The header lines whose identifier has a version suffix.
VersionedHeaders ==
    {i \in 1..Len(fasta_file.lines) : IsHeaderLine(i) /\ HasVersionSuffix(HeaderToken(i))}

\* The scenario of the specification.
ScenarioLines == << <<">","p","a","n","_","4","2","_","v","1",".","0",".","1","_","i","d","e","n","t","i","c","a","l">>, <<"A","C","G","T">>, <<"G","G","C","C">> >>

\* C8 as stated: every record whose identifier has a version suffix is
\* stored under the identifier cut at a version marker, where what is cut
\* off is the suffix _v..._identical and nothing more.
C8_StoredUnderCutIdentifier ==
    (fpc = "done" /\ fasta_file.exists) =>
        \A i \in VersionedHeaders :
            LET h == HeaderToken(i)
            IN  \E j \in 1..Len(h) :
                    /\ IsAt(h, j, VERSION_MARKER)
                    /\ IsAt(h, Len(h) - Len(IDENTICAL_MARKER) + 1, IDENTICAL_MARKER)
                    /\ Len(h) - Len(IDENTICAL_MARKER) + 1 >= j + Len(VERSION_MARKER)
                    /\ SubSeq(h, 1, j - 1) \in DOMAIN sequences

\* C8 as amended: a record whose identifier has a version suffix is stored
\* under the text before the FIRST '_v' of the identifier, all that follows
\* being dropped (text after "_identical" too), provided that text is not
\* empty; when it is empty no record is stored for the header. The scenario
\* >pan_42_v1.0.1_identical, ACGT, GGCC yields {pan_42: ACGTGGCC}.
C8_StoredUnderTextBeforeFirstMarker ==
    (fpc = "done" /\ fasta_file.exists) =>
        /\ \A i \in VersionedHeaders :
               LET key == BeforeFirst(HeaderToken(i), VERSION_MARKER)
               IN  IF key = <<>> THEN <<>> \notin DOMAIN sequences
                                 ELSE key \in DOMAIN sequences
        /\ fasta_file.lines = ScenarioLines =>
               sequences = (<<"p","a","n","_","4","2">> :> <<"A","C","G","T","G","G","C","C">>)

\* The scenario file has been parsed and holds a record for pan_42.
C8_Witness ==
    /\ fpc = "done"
    /\ fasta_file.lines = ScenarioLines
    /\ <<"p","a","n","_","4","2">> \in DOMAIN sequences

\* The first header line after line i, or one past the end of the file.
NextHeader(i) ==
    Min({m \in (i + 1)..Len(fasta_file.lines) : IsHeaderLine(m)}
        \cup {Len(fasta_file.lines) + 1})

RECURSIVE TrimmedLines(_, _)
\* The trimmed lines a..b of the file, concatenated in file order.
TrimmedLines(a, b) ==
    IF a > b THEN <<>> ELSE Strip(fasta_file.lines[a]) \o TrimmedLines(a + 1, b)

\* C9: each entry of the returned mapping holds exactly the trimmed lines
\* between a header that produced its identifier and the next header or
\* the end of the file (so lines before the first header are in no entry),
\* and the only line that raises is a header with no identifier.
C9_EntriesAreBlocks ==
    /\ (fpc = "done" /\ fasta_file.exists) =>
           \A k \in DOMAIN sequences :
               \E i \in 1..Len(fasta_file.lines) :
                   /\ IsHeaderLine(i)
                   /\ header_id(HeaderToken(i)) = k
                   /\ sequences[k] = TrimmedLines(i + 1, NextHeader(i) - 1)
    /\ fpc = "error" =>
           \E i \in 1..Len(fasta_file.lines) : Strip(fasta_file.lines[i]) = <<">">>

\* A file whose first line is a sequence line has been parsed, and the
\* line is in no entry.
C9_Witness ==
    /\ fpc = "done"
    /\ fasta_file.lines = << <<"A","C","G","T">>, <<">","p","a","n","_","4","2"," ","g","e","n","e","\n">>, <<" ","T","T"," ","\n">> >>
    /\ sequences = (<<"p","a","n","_","4","2">> :> <<"T","T">>)

---------------------------------------------------------------------------
\* Properties of the run, stated for Spec.

CategoryNames == {"PanGene", "OriginalGene", "AntibioticClass",
                  "Phenotype", "Mechanism", "Database"}

\* The role predicates and the category each one feeds.
Roles ==
    { [pred |-> HAS_RESISTANCE_CLASS,        cat |-> "AntibioticClass"],
      [pred |-> HAS_PREDICTED_PHENOTYPE,     cat |-> "Phenotype"],
      [pred |-> HAS_MECHANISM_OF_RESISTANCE, cat |-> "Mechanism"],
      [pred |-> IS_FROM_DATABASE,            cat |-> "Database"] }

\* The members of a category list of the document being built.
Members(cat) == {data.categories[cat][i] : i \in 1..Len(data.categories[cat])}

\* The triples of the graph the first pass retains.
RetainedTriples == {t \in graph : t.s.kind = "uri" /\ t.o.kind # "bnode"}

\* The retained triples that name a resource as the target of role predicate pred.
RoleTriples(pred) ==
    {t \in RetainedTriples : clean_uri(t.p.str) = pred /\ t.o.kind = "uri"}

\* The identifiers that are the subject of at least one retained triple.
SubjectIds == {clean_uri(t.s.str) : t \in RetainedTriples}

\* C1: in every state of the run, so after every step of the building
\* loop, each identifier in any of the six category lists is a key of subjects.
C1_CategoriesWithinSubjects ==
    \A cat \in CategoryNames : Members(cat) \subseteq DOMAIN data.subjects

\* The building loop has filed one subject under a category and has
\* another subject still to build.
C1_Witness ==
    /\ pc = "build"
    /\ 1 < build_i /\ build_i <= Len(subj_order)
    /\ \E cat \in CategoryNames : data.categories[cat] # <<>>

\* C2 as stated: at the end of a run, every resource that is the object of
\* a retained role triple is in the category list of that role.
C2_EveryRoleTargetListed ==
    pc = "done" =>
        \A r \in Roles : \A t \in RoleTriples(r.pred) :
            clean_uri(t.o.str) \in Members(r.cat)

\* The graph of the scenario.
ScenarioGraph == {Triple(Gene1, PType, CPanGene), Triple(Gene1, PClass, Beta)}

\* C2 as amended: at the end of a run, a resource that is the object of a
\* retained role triple is in the category list of that role exactly when
\* it is itself the subject of at least one retained triple. For the graph
\* (Gene1, rdf:type, PanGene), (Gene1, has_resistance_class, Beta), Gene1
\* is in PanGene and AntibioticClass is empty, Beta having no triple of its own.
C2_RoleTargetListedIffSubject ==
    pc = "done" =>
        /\ \A r \in Roles : \A t \in RoleTriples(r.pred) :
               clean_uri(t.o.str) \in Members(r.cat) <=> clean_uri(t.o.str) \in SubjectIds
        /\ graph = ScenarioGraph =>
               /\ data.categories.PanGene = << <<"G","e","n","e","1">> >>
               /\ data.categories.AntibioticClass = <<>>

\* A run has ended on a graph in which Beta is the target of
\* has_resistance_class and has a triple of its own, and Beta is listed.
C2_Witness ==
    /\ pc = "done"
    /\ Triple(Gene1, PClass, Beta) \in graph
    /\ Triple(Beta, PLabel, Literal(<<"B","e","t","a","-","l","a","c","t","a","m","a","s","e">>)) \in graph
    /\ <<"B","e","t","a">> \in Members("AntibioticClass")

\* The role scan run again on the properties of a document's subjects.
Rederived(doc, pred) ==
    UNION { {doc.subjects[s].properties[pred][i].value :
                 i \in {j \in 1..Len(doc.subjects[s].properties[pred]) :
                            ~doc.subjects[s].properties[pred][j].is_literal}} :
            s \in {x \in DOMAIN doc.subjects : pred \in DOMAIN doc.subjects[x].properties} }

\* The members of a category list of a document.
DocMembers(doc, cat) == {doc.categories[cat][i] : i \in 1..Len(doc.categories[cat])}

\* C3 as stated: the role scan run on the written document's subjects
\* yields exactly the members of the document's four role category lists.
C3_RescanEqualsCategories ==
    json_file.written =>
        \A r \in Roles :
            Rederived(json_file.content, r.pred) = DocMembers(json_file.content, r.cat)

\* C3 as amended: each of the four role category lists of the written
\* document holds exactly those identifiers the role scan finds in the
\* document's subjects that are also keys of subjects; a role target with
\* no entry of its own is found by the scan and is in no list.
C3_CategoriesAreRescanWithinSubjects ==
    json_file.written =>
        \A r \in Roles :
            DocMembers(json_file.content, r.cat) =
                Rederived(json_file.content, r.pred) \cap DOMAIN json_file.content.subjects

\* A document has been written in which the scan finds a phenotype target
\* and the Phenotype list is not empty.
C3_Witness ==
    /\ json_file.written
    /\ Rederived(json_file.content, HAS_PREDICTED_PHENOTYPE) # {}
    /\ json_file.content.categories.Phenotype # <<>>

\* The str() of the blank nodes of the graph.
BlankLabels ==
    {t.s.str : t \in {x \in graph : x.s.kind = "bnode"}}
    \cup {t.o.str : t \in {x \in graph : x.o.kind = "bnode"}}

\* The values of all property lists and type lists of the document.
DocValues ==
    UNION { UNION { {data.subjects[s].properties[p][i].value :
                         i \in 1..Len(data.subjects[s].properties[p])} :
                    p \in DOMAIN data.subjects[s].properties }
                \cup Range(data.subjects[s].types) :
            s \in DOMAIN data.subjects }

\* C4: in every state, no blank node is a key of subjects, a member of a
\* category list or a value of a property or type list; every key of
\* subjects is the subject of a retained triple; and an identifier all of
\* whose triples have blank-node objects is not a key of subjects.
C4_BlankNodesLeaveNoTrace ==
    /\ BlankLabels \cap DOMAIN data.subjects = {}
    /\ \A cat \in CategoryNames : BlankLabels \cap Members(cat) = {}
    /\ BlankLabels \cap DocValues = {}
    /\ \A s \in DOMAIN data.subjects :
           \E t \in graph : /\ t.s.kind = "uri" /\ t.o.kind # "bnode"
                            /\ clean_uri(t.s.str) = s
    /\ \A t \in graph :
           (/\ t.s.kind = "uri"
            /\ \A u \in graph :
                   (u.s.kind = "uri" /\ clean_uri(u.s.str) = clean_uri(t.s.str))
                       => u.o.kind = "bnode")
               => clean_uri(t.s.str) \notin DOMAIN data.subjects

\* A run has ended on a graph with a blank-node subject and with a subject
\* whose only triple has a blank-node object, and has built some entry.
C4_Witness ==
    /\ pc = "done"
    /\ graph = {Triple(Gene1, PType, CPanGene), Triple(Beta, PClass, Blank),
                Triple(Blank, PType, CPanGene)}
    /\ DOMAIN data.subjects = { <<"G","e","n","e","1">> }

\* C5: the JSON file is written only after the download and the parse
\* succeeded and the whole document was built; a failed download ends the
\* run with status 1 before any parse, a failed parse ends it with status
\* 1, and neither these runs nor a run that crashes writes the file.
C5_WriteOnlyAfterFullBuild ==
    /\ json_file.written =>
           /\ download_ok = "yes" /\ parse_ok = "yes"
           /\ todo = {}
           /\ scan_i > Len(subj_order) /\ build_i > Len(subj_order)
           /\ DOMAIN json_file.content.subjects = SubjectIds
           /\ json_file.content.metadata.total_subjects = Cardinality(SubjectIds)
           /\ json_file.content.metadata.total_triples = Cardinality(graph)
           /\ json_file.content = data
    /\ download_ok = "no" =>
           /\ pc = "exited" /\ exit_status = "1"
           /\ parse_ok = "pending" /\ ~json_file.written
    /\ parse_ok = "no" =>
           /\ pc = "exited" /\ exit_status = "1" /\ ~json_file.written
    /\ pc = "crashed" => exit_status = "1" /\ ~json_file.written
    /\ exit_status = "0" <=> json_file.written

\* A run has written a document with two subjects.
C5_Witness ==
    /\ pc = "done"
    /\ json_file.written
    /\ Cardinality(DOMAIN json_file.content.subjects) = 2

\* The values of the retained rdf:type triples of identifier k.
TypesOf(k) ==
    {IF t.o.kind = "uri" THEN clean_uri(t.o.str) ELSE t.o.str :
         t \in {x \in RetainedTriples :
                    clean_uri(x.s.str) = k /\ clean_uri(x.p.str) = RDF_TYPE}}

\* The members of a category as the set of triples alone determines them.
ExpectedMembers(cat) ==
    CASE cat = "PanGene" ->
             {k \in SubjectIds : TypesOf(k) \cap pangene_types # {}}
      [] cat = "OriginalGene" ->
             {k \in SubjectIds : ORIGINAL_GENE \in TypesOf(k)}
      [] OTHER ->
             LET r == CHOOSE x \in Roles : x.cat = cat
             IN  {k \in SubjectIds :
                      \E t \in RoleTriples(r.pred) : clean_uri(t.o.str) = k}

\* C10: at the end of a run, whatever order the graph yielded its triples
\* in, the keys of subjects and the members of each category list are
\* those the set of triples determines, and no list holds a subject twice.
C10_OrderIndependent ==
    pc = "done" =>
        /\ DOMAIN data.subjects = SubjectIds
        /\ \A cat \in CategoryNames :
               /\ Members(cat) = ExpectedMembers(cat)
               /\ \A i, j \in 1..Len(data.categories[cat]) :
                      data.categories[cat][i] = data.categories[cat][j] => i = j

\* A run has ended in which the role target Beta was collected before the
\* subject Gene1 that names it, and Beta is listed.
C10_Witness ==
    /\ pc = "done"
    /\ subj_order = << <<"B","e","t","a">>, <<"G","e","n","e","1">> >>
    /\ data.categories.AntibioticClass = << <<"B","e","t","a">> >>

====
